---------------------------- MODULE Spec2Model ----------------------------
(***************************************************************************)
(* A model of the resource-access layer of stripe-rs: the PaymentIntent    *)
(* and Payout operation templates (src/stripe/src/resources), the          *)
(* parameter records they serialize, the enumerations they decode, and     *)
(* the paginated List container they return.                               *)
(*                                                                         *)
(* Strings are TLA+ strings; paths, query strings and form bodies are      *)
(* built by concatenation exactly as format!() and the form encoder build  *)
(* them, and are taken apart again character by character by the           *)
(* transport double and by the properties.                                 *)
(***************************************************************************)
EXTENDS Integers, Sequences, FiniteSets, TLC

(***************************************************************************)
(* Bounds of the model.                                                    *)
(***************************************************************************)
\* the transport double serves at most this many pages
MaxPages == 3
\* a page holds at most this many elements
MaxPageSize == 2
\* a pagination loop is cut after this many next_page calls
MaxFetch == 5

(***************************************************************************)
(* Option<T>.                                                              *)
(***************************************************************************)
None == [tag |-> "None"]
Some(x) == [tag |-> "Some", v |-> x]
IsSome(o) == o.tag = "Some"
IsNone(o) == o.tag = "None"

(***************************************************************************)
(* Strings.                                                                *)
(***************************************************************************)
CharAt(s, i) == SubSeq(s, i, i)
Tail_(s, i) == SubSeq(s, i, Len(s))

\* The recursions over a string are functions, not operators: a function is
\* applied to the value of its argument.

\* index of the first occurrence of character c in s at or after i; 0 if none
IndexFrom[s \in STRING, c \in STRING, i \in Nat] ==
  IF i > Len(s) THEN 0
  ELSE IF CharAt(s, i) = c THEN i
  ELSE IndexFrom[s, c, i + 1]

IndexOf(s, c) == IndexFrom[s, c, 1]

\* s split at every occurrence of the character c ("" splits into <<"">>)
SplitAt[s \in STRING, c \in STRING] ==
  LET i == IndexFrom[s, c, 1] IN
  IF i = 0 THEN <<s>>
  ELSE <<SubSeq(s, 1, i - 1)>> \o SplitAt[Tail_(s, i + 1), c]

RECURSIVE Join(_, _)
Join(parts, sep) ==
  IF parts = <<>> THEN ""
  ELSE IF Len(parts) = 1 THEN parts[1]
  ELSE parts[1] \o sep \o Join(Tail(parts), sep)

Digits == "0123456789"

\* Display for an integer: its decimal representation
RECURSIVE NatToDecimal(_)
NatToDecimal(n) ==
  IF n < 10 THEN CharAt(Digits, n + 1)
  ELSE NatToDecimal(n \div 10) \o CharAt(Digits, (n % 10) + 1)

ToDecimal(n) == IF n < 0 THEN "-" \o NatToDecimal(0 - n) ELSE NatToDecimal(n)

AllDigitsIn[s \in STRING] ==
  IF s = "" THEN TRUE
  ELSE IndexOf(Digits, CharAt(s, 1)) > 0 /\ AllDigitsIn[Tail_(s, 2)]

ParseNatFrom[s \in STRING, acc \in Nat] ==
  IF s = "" THEN acc
  ELSE ParseNatFrom[Tail_(s, 2), acc * 10 + IndexOf(Digits, CharAt(s, 1)) - 1]

\* str::parse::<i64>: Some(n), or None when s is no decimal integer
ParseDecimal(s) ==
  IF s = "" THEN None
  ELSE IF CharAt(s, 1) = "-"
    THEN IF Len(s) > 1 /\ AllDigitsIn[Tail_(s, 2)]
           THEN Some(0 - ParseNatFrom[Tail_(s, 2), 0]) ELSE None
  ELSE IF AllDigitsIn[s] THEN Some(ParseNatFrom[s, 0]) ELSE None

\* serde's rename_all = "snake_case" applied to a variant name: every
\* upper-case letter is lowered, and preceded by "_" unless it is the first
RECURSIVE SnakeFrom(_, _)
SnakeFrom(s, i) ==
  IF i > Len(s) THEN ""
  ELSE LET c == CharAt(s, i)
           u == IndexOf("ABCDEFGHIJKLMNOPQRSTUVWXYZ", c)
       IN (IF u = 0 THEN c
           ELSE (IF i = 1 THEN "" ELSE "_") \o CharAt("abcdefghijklmnopqrstuvwxyz", u))
          \o SnakeFrom(s, i + 1)

(***************************************************************************)
(* Enumerations.  An enumeration is its variants in declaration order, the *)
(* explicit #[serde(rename)] of a variant where it has one, whether        *)
(* rename_all = "snake_case" is set, and the variant marked                *)
(* #[serde(other)] if there is one.                                        *)
(***************************************************************************)
\* the name a variant has on the wire
RenamedVariant(variant, renames, snake) ==
  IF variant \in DOMAIN renames THEN renames[variant]
  ELSE IF snake THEN SnakeFrom(variant, 1)
  ELSE variant

RECURSIVE RenamedVariants(_, _, _)
RenamedVariants(variants, renames, snake) ==
  IF variants = <<>> THEN <<>>
  ELSE <<RenamedVariant(variants[1], renames, snake)>>
       \o RenamedVariants(Tail(variants), renames, snake)

Enum(variants, renames, snake, other) ==
  [variants |-> variants, other |-> other,
   wire |-> RenamedVariants(variants, renames, snake)]

NoRenames == [v \in {} |-> ""]

PaymentErrorType ==
  Enum(<<"Api", "Connection", "Authentication", "Card", "Idempotency",
         "InvalidRequest", "RateLimit", "Other">>,
       [v \in {"Api", "Connection", "Authentication", "Card", "Idempotency",
               "InvalidRequest", "RateLimit"} |->
          CASE v = "Api" -> "api_error"
            [] v = "Connection" -> "api_connection_error"
            [] v = "Authentication" -> "authentication_error"
            [] v = "Card" -> "card_error"
            [] v = "Idempotency" -> "idempotency_error"
            [] v = "InvalidRequest" -> "invalid_request_error"
            [] v = "RateLimit" -> "rate_limit_error"],
       FALSE, Some("Other"))

PaymentIntentStatus ==
  Enum(<<"RequiresSource", "RequiresConfirmation", "RequiresSourceAction",
         "Processing", "RequiresCapture", "Canceled", "Succeeded", "Other">>,
       NoRenames, TRUE, Some("Other"))

CancellationReason ==
  Enum(<<"Duplicate", "Fraudulent", "RequestedByCustomer", "Other">>,
       NoRenames, TRUE, Some("Other"))

CaptureMethod ==
  Enum(<<"Automatic", "Manual", "Other">>, NoRenames, TRUE, Some("Other"))

ConfirmationMethod ==
  Enum(<<"Secret", "Publishable", "Other">>, NoRenames, TRUE, Some("Other"))

PayoutFailureCode ==
  Enum(<<"AccountClosed", "AccountFrozen", "BankAccountRestricted",
         "BankOwnershipChanged", "CouldNotProcess", "DebitNotAuthorized",
         "Declined", "InsufficientFunds", "InvalidAccountNumber",
         "IncorrectAccountHolderName", "InvalidCurrency", "NoAccount",
         "UnsupportedCard", "Other">>,
       NoRenames, TRUE, Some("Other"))

PayoutMethod ==
  Enum(<<"Standard", "Instant", "Other">>, NoRenames, TRUE, Some("Other"))

PayoutSourceType ==
  Enum(<<"Card", "BankAccount", "AlipayAccount", "Other">>,
       NoRenames, TRUE, Some("Other"))

\* the enumeration without its #[serde(other)] variant
PayoutStatus_closed ==
  Enum(<<"Paid", "Pending", "InTransit", "Canceled", "Failed">>,
       NoRenames, TRUE, None)

PayoutStatus ==
  Enum(<<"Paid", "Pending", "InTransit", "Canceled", "Failed", "Other">>,
       NoRenames, TRUE, Some("Other"))

PayoutType ==
  Enum(<<"BankAccount", "Card", "Other">>, NoRenames, TRUE, Some("Other"))

WireName(e, variant) ==
  e.wire[CHOOSE i \in 1..Len(e.variants) : e.variants[i] = variant]

\* the variants a wire string can name: all but the #[serde(other)] one
NamedVariants(e) ==
  {e.variants[i] : i \in 1..Len(e.variants)} \
    (IF IsSome(e.other) THEN {e.other.v} ELSE {})

\* derive(Deserialize) on a unit-variant enumeration: the variant whose wire
\* name is s; otherwise the #[serde(other)] variant; otherwise an error
DeserializeEnum(e, s) ==
  LET hit == {i \in 1..Len(e.variants) :
                e.wire[i] = s /\ e.variants[i] \in NamedVariants(e)}
  IN IF hit # {} THEN Some(e.variants[CHOOSE i \in hit : TRUE])
     ELSE e.other

(***************************************************************************)
(* Form encoding (serde_qs::to_string).  The encoded form is a sequence of *)
(* key/value pairs, written out as k=v joined by "&".  A value nested      *)
(* under a field is keyed field[sub].  The values of the model hold only   *)
(* characters the encoder passes through unescaped.                        *)
(***************************************************************************)
Pair(k, v) == [k |-> k, v |-> v]

\* the key of sub under key; at the top level (no key yet) it is sub itself
SubKey(key, sub) == IF key = "" THEN sub ELSE key \o "[" \o sub \o "]"

\* the kinds of value a parameter field holds
KStr == [k |-> "str"]
KInt == [k |-> "int"]
KBool == [k |-> "bool"]
KMap == [k |-> "map"]
KSeq == [k |-> "seq"]
KRange == [k |-> "range"]
KEnum(e) == [k |-> "enum", e |-> e]

\* Metadata = HashMap<String, String>; a nested parameter record is encoded
\* the same way.  A map is held as its entries <<key, value>> in iteration
\* order.
RECURSIVE QsMap(_, _)
QsMap(key, m) ==
  IF m = <<>> THEN <<>>
  ELSE <<Pair(SubKey(key, m[1][1]), m[1][2])>> \o QsMap(key, Tail(m))

\* Vec<String>: one pair per element, keyed by its index from 0
RECURSIVE QsSeq(_, _, _)
QsSeq(key, xs, i) ==
  IF i > Len(xs) THEN <<>>
  ELSE <<Pair(SubKey(key, ToDecimal(i - 1)), xs[i])>> \o QsSeq(key, xs, i + 1)

\* RangeQuery<Timestamp>: the four optional bounds gt, gte, lt, lte; a bound
\* that is set is encoded key[bound]=<decimal>, an absent one is left out
RangeBoundNames == <<"gt", "gte", "lt", "lte">>

RangeQuery(gt, gte, lt, lte) == [gt |-> gt, gte |-> gte, lt |-> lt, lte |-> lte]

RECURSIVE QsRangeFrom(_, _, _)
QsRangeFrom(key, rq, i) ==
  IF i > Len(RangeBoundNames) THEN <<>>
  ELSE LET b == RangeBoundNames[i] IN
       (IF IsSome(rq[b]) THEN <<Pair(SubKey(key, b), ToDecimal(rq[b].v))>>
        ELSE <<>>)
       \o QsRangeFrom(key, rq, i + 1)

QsValue(key, kind, v) ==
  CASE kind.k = "str" -> <<Pair(key, v)>>
    [] kind.k = "int" -> <<Pair(key, ToDecimal(v))>>
    [] kind.k = "bool" -> <<Pair(key, IF v THEN "true" ELSE "false")>>
    [] kind.k = "enum" -> <<Pair(key, WireName(kind.e, v))>>
    [] kind.k = "map" -> QsMap(key, v)
    [] kind.k = "seq" -> QsSeq(key, v, 1)
    [] kind.k = "range" -> QsRangeFrom(key, v, 1)

\* a field of a parameter record: a required value, or an Option carrying
\* #[serde(skip_serializing_if = "Option::is_none")]
Req(name, kind) == [name |-> name, kind |-> kind, opt |-> FALSE]
Opt(name, kind) == [name |-> name, kind |-> kind, opt |-> TRUE]

QsField(f, v) ==
  IF f.opt
    THEN IF IsNone(v) THEN <<>> ELSE QsValue(f.name, f.kind, v.v)
    ELSE QsValue(f.name, f.kind, v)

\* derive(Serialize) on a struct: its fields in declaration order
RECURSIVE QsStruct(_, _)
QsStruct(fields, p) ==
  IF fields = <<>> THEN <<>>
  ELSE QsField(fields[1], p[fields[1].name]) \o QsStruct(Tail(fields), p)

RECURSIVE QsPairStrings(_)
QsPairStrings(pairs) ==
  IF pairs = <<>> THEN <<>>
  ELSE <<pairs[1].k \o "=" \o pairs[1].v>> \o QsPairStrings(Tail(pairs))

\* the encoded string of a sequence of pairs
QsString(pairs) == Join(QsPairStrings(pairs), "&")

\* the pairs of an encoded string: the decoder's view of a query or a body
RECURSIVE ParsePairStrings(_)
ParsePairStrings(parts) ==
  IF parts = <<>> THEN <<>>
  ELSE LET s == parts[1]
           i == IndexOf(s, "=")
       IN <<IF i = 0 THEN Pair(s, "")
            ELSE Pair(SubSeq(s, 1, i - 1), Tail_(s, i + 1))>>
          \o ParsePairStrings(Tail(parts))

ParseQs(s) == IF s = "" THEN <<>> ELSE ParsePairStrings(SplitAt[s, "&"])

\* a bracketed key field[sub] taken apart: <<field, sub>>; a plain key: <<key>>
ParseKey(k) ==
  LET i == IndexOf(k, "[") IN
  IF i = 0 \/ ~(Len(k) >= 1 /\ SubSeq(k, Len(k), Len(k)) = "]") THEN <<k>>
  ELSE <<SubSeq(k, 1, i - 1), SubSeq(k, i + 1, Len(k) - 1)>>

\* the value of the first pair with key k
RECURSIVE PairLookup(_, _)
PairLookup(pairs, k) ==
  IF pairs = <<>> THEN None
  ELSE IF pairs[1].k = k THEN Some(pairs[1].v)
  ELSE PairLookup(Tail(pairs), k)

\* the pairs whose key is not k
RECURSIVE PairsWithout(_, _)
PairsWithout(pairs, k) ==
  IF pairs = <<>> THEN <<>>
  ELSE (IF pairs[1].k = k THEN <<>> ELSE <<pairs[1]>>)
       \o PairsWithout(Tail(pairs), k)

(***************************************************************************)
(* Parameter records.                                                      *)
(***************************************************************************)
PayoutParams ==
  << Req("amount", KInt), Req("currency", KStr),
     Opt("description", KStr), Opt("destination", KStr),
     Opt("metadata", KMap), Opt("method", KEnum(PayoutMethod)),
     Opt("source_type", KEnum(PayoutSourceType)),
     Opt("statement_descriptor", KStr) >>

PayoutListParams ==
  << Opt("arrival_date", KRange), Opt("created", KRange),
     Opt("destination", KStr), Opt("ending_before", KStr),
     Opt("limit", KInt), Opt("starting_after", KStr),
     Opt("status", KEnum(PayoutStatus)) >>

PaymentIntentCreateParams ==
  << Req("allowed_source_types", KSeq), Req("amount", KInt),
     Req("currency", KStr),
     Opt("application_fee_amount", KInt),
     Opt("capture_method", KEnum(CaptureMethod)),
     Opt("confirm", KBool), Opt("customer", KStr),
     Opt("description", KStr), Opt("metadata", KMap),
     Opt("on_behalf_of", KStr), Opt("receipt_email", KStr),
     Opt("return_url", KStr), Opt("save_source_to_customer", KBool),
     Opt("shipping", KMap), Opt("source", KStr),
     Opt("statement_descriptor", KStr), Opt("transfer_data", KMap),
     Opt("transfer_group", KStr) >>

PaymentIntentUpdateParams ==
  << Opt("amount", KInt), Opt("application_fee_amount", KInt),
     Opt("currency", KStr), Opt("customer", KStr),
     Opt("description", KStr), Opt("metadata", KMap),
     Opt("receipt_email", KStr), Opt("save_source_to_customer", KBool),
     Opt("shipping", KMap), Opt("source", KStr),
     Opt("transfer_group", KStr) >>

PaymentIntentConfirmParams ==
  << Opt("receipt_email", KStr), Opt("return_url", KStr),
     Opt("save_source_to_customer", KBool), Opt("shipping", KMap),
     Opt("source", KStr) >>

PaymentIntentCaptureParams ==
  << Opt("amount_to_capture", KInt), Opt("application_fee_amount", KInt) >>

PaymentIntentCancelParams ==
  << Opt("cancellation_reason", KEnum(CancellationReason)) >>

PaymentIntentListParams ==
  << Opt("created", KRange), Opt("ending_before", KStr),
     Opt("limit", KInt), Opt("starting_after", KStr) >>

\* derive(Default): every Option None, numbers 0, strings and vectors empty
RECURSIVE Default(_)
Default(fields) ==
  IF fields = <<>> THEN <<>>
  ELSE LET f == fields[1]
           v == IF f.opt THEN None
                ELSE CASE f.kind.k = "int" -> 0
                       [] f.kind.k = "str" -> ""
                       [] f.kind.k = "seq" -> <<>>
       IN (f.name :> v) @@ Default(Tail(fields))

(***************************************************************************)
(* JSON values, and derive(Deserialize).                                   *)
(***************************************************************************)
JNull == [t |-> "null"]
JStr(s) == [t |-> "str", s |-> s]
JNum(n) == [t |-> "num", n |-> n]
JBool(b) == [t |-> "bool", b |-> b]
JArr(xs) == [t |-> "arr", xs |-> xs]
JObj(o) == [t |-> "obj", o |-> o]

Ok(v) == [ok |-> TRUE, v |-> v]
Err(e) == [ok |-> FALSE, e |-> e]

\* a field of a resource record: the key it has in the JSON object, the name
\* it has in the record, its kind, and whether it is an Option
Field(key, name, kind, opt) == [key |-> key, name |-> name, kind |-> kind, opt |-> opt]
KStruct(schema) == [k |-> "struct", schema |-> schema]

PaymentError ==
  << Field("type", "payment_error_type", KEnum(PaymentErrorType), FALSE),
     Field("code", "code", KStr, TRUE) >>

\* PaymentIntent: its identifier, one plain scalar (amount, standing for the
\* fields that are passed through as they come), and its enumerated fields
PaymentIntent ==
  << Field("id", "id", KStr, FALSE),
     Field("object", "object", KStr, FALSE),
     Field("amount", "amount", KInt, FALSE),
     Field("cancellation_reason", "cancellation_reason",
           KEnum(CancellationReason), TRUE),
     Field("capture_method", "capture_method", KEnum(CaptureMethod), FALSE),
     Field("confirmation_method", "confirmation_method",
           KEnum(ConfirmationMethod), TRUE),
     Field("last_payment_error", "last_payment_error",
           KStruct(PaymentError), TRUE),
     Field("status", "status", KEnum(PaymentIntentStatus), FALSE) >>

Payout ==
  << Field("id", "id", KStr, FALSE),
     Field("object", "object", KStr, FALSE),
     Field("amount", "amount", KInt, FALSE),
     Field("failure_code", "failure_code", KEnum(PayoutFailureCode), TRUE),
     Field("method", "method", KEnum(PayoutMethod), FALSE),
     Field("source_type", "source_type", KEnum(PayoutSourceType), FALSE),
     Field("status", "status", KEnum(PayoutStatus), FALSE),
     Field("type", "payout_type", KEnum(PayoutType), FALSE) >>

RECURSIVE DeserializeStruct(_, _)

DeserializeValue(kind, j) ==
  CASE kind.k = "str" -> IF j.t = "str" THEN Ok(j.s) ELSE Err("type")
    [] kind.k = "int" -> IF j.t = "num" THEN Ok(j.n) ELSE Err("type")
    [] kind.k = "bool" -> IF j.t = "bool" THEN Ok(j.b) ELSE Err("type")
    [] kind.k = "enum" ->
         IF j.t # "str" THEN Err("type")
         ELSE LET d == DeserializeEnum(kind.e, j.s) IN
              IF IsSome(d) THEN Ok(d.v) ELSE Err("unknown variant")
    [] kind.k = "struct" -> DeserializeStruct(kind.schema, j)

DeserializeField(f, o) ==
  IF f.key \notin DOMAIN o \/ (f.opt /\ o[f.key].t = "null")
    THEN IF f.opt THEN Ok(None) ELSE Err("missing field")
    ELSE LET d == DeserializeValue(f.kind, o[f.key]) IN
         IF ~d.ok THEN d
         ELSE IF f.opt THEN Ok(Some(d.v)) ELSE d

\* the fields of a struct, each from its key of the JSON object
RECURSIVE DeserializeFields(_, _)
DeserializeFields(schema, o) ==
  IF schema = <<>> THEN Ok(<<>>)
  ELSE LET d == DeserializeField(schema[1], o) IN
       IF ~d.ok THEN d
       ELSE LET rest == DeserializeFields(Tail(schema), o) IN
            IF ~rest.ok THEN rest
            ELSE Ok((schema[1].name :> d.v) @@ rest.v)

DeserializeStruct(schema, j) ==
  IF j.t # "obj" THEN Err("type") ELSE DeserializeFields(schema, j.o)

\* Vec<T>
RECURSIVE DeserializeElements(_, _)
DeserializeElements(schema, xs) ==
  IF xs = <<>> THEN Ok(<<>>)
  ELSE LET d == DeserializeStruct(schema, xs[1]) IN
       IF ~d.ok THEN d
       ELSE LET rest == DeserializeElements(schema, Tail(xs)) IN
            IF ~rest.ok THEN rest ELSE Ok(<<d.v>> \o rest.v)

DeserializeVec(schema, j) ==
  IF j.t # "arr" THEN Err("type") ELSE DeserializeElements(schema, j.xs)

\* List<T>: the page of elements, has_more and the collection url
DeserializeList(schema, j) ==
  IF j.t # "obj" THEN Err("type")
  ELSE IF {"data", "has_more", "url"} \ DOMAIN j.o # {} THEN Err("missing field")
  ELSE LET data == DeserializeVec(schema, j.o.data) IN
       IF ~data.ok THEN data
       ELSE LET more == DeserializeValue(KBool, j.o.has_more)
                url == DeserializeValue(KStr, j.o.url)
            IN IF ~more.ok \/ ~url.ok THEN Err("field")
               ELSE Ok([data |-> data.v, has_more |-> more.v, url |-> url.v])

\* the types an operation decodes its response into
TResource(schema) == [list |-> FALSE, schema |-> schema]
TList(schema) == [list |-> TRUE, schema |-> schema]

Deserialize(T, j) ==
  IF T.list THEN DeserializeList(T.schema, j) ELSE DeserializeStruct(T.schema, j)

\* an identifier read from the field next to it
PaymentIntent_id_object(self) == self.object

\* impl Identifiable
PaymentIntent_id(self) == self.id
Payout_id(self) == self.id

\* List::has_more()
List_has_more(self) == self.has_more

(***************************************************************************)
(* Errors, the transport and the client.                                   *)
(***************************************************************************)
TransportError(e) == [kind |-> "TransportError", e |-> e]
ApiError(class, code) == [kind |-> "ApiError", class |-> class, code |-> code]
DecodeError == [kind |-> "DecodeError"]
InvalidCursor == [kind |-> "InvalidCursor"]
EncodingError == [kind |-> "EncodingError"]

\* what the transport answers: a failure of its own, or an HTTP response
Failed(e) == [t |-> "fail", e |-> e]
Http(status, body) == [t |-> "http", status |-> status, body |-> body]

\* a request as the transport sees it: the method of the transport that was
\* called, the verb, the path and the body
Request(method, verb, path, body) ==
  [method |-> method, verb |-> verb, path |-> path, body |-> body]

\* the classification of an error envelope's type
ErrorClass(type) ==
  CASE type = "authentication_error" -> "authentication"
    [] type = "rate_limit_error" -> "rate-limit"
    [] type = "invalid_request_error" -> "invalid-request"
    [] type = "idempotency_error" -> "idempotency"
    [] type = "card_error" -> "card/processing"
    [] OTHER -> "unclassified"

Envelope ==
  << Field("type", "type", KStr, FALSE), Field("code", "code", KStr, TRUE) >>

\* the result of a call, from the transport's answer
Respond(reply, T) ==
  IF reply.t = "fail" THEN Err(TransportError(reply.e))
  ELSE IF reply.status >= 200 /\ reply.status < 300
    THEN LET d == Deserialize(T, reply.body) IN
         IF d.ok THEN Ok(d.v) ELSE Err(DecodeError)
  ELSE IF reply.body.t = "obj" /\ "error" \in DOMAIN reply.body.o
    THEN LET d == DeserializeStruct(Envelope, reply.body.o.error) IN
         IF d.ok THEN Err(ApiError(ErrorClass(d.v.type), d.v.code))
         ELSE Err(DecodeError)
  ELSE Err(DecodeError)

\* the path and the query of a request path
PathOf(path) ==
  LET i == IndexOf(path, "?") IN
  IF i = 0 THEN path ELSE SubSeq(path, 1, i - 1)

QueryOf(path) ==
  LET i == IndexOf(path, "?") IN
  IF i = 0 THEN "" ELSE Tail_(path, i + 1)

\* the identifier of the last element of a page of the double ("" if empty)
LastIdOf(page) ==
  LET xs == page.o.data.xs IN
  IF xs = <<>> THEN "" ELSE xs[Len(xs)].o.id.s

EmptyPage(url) ==
  JObj([object |-> JStr("list"), data |-> JArr(<<>>),
        has_more |-> JBool(FALSE), url |-> JStr(url)])

\* The transport double.  One kind answers every request with the same
\* reply.  The other holds the pages P1..Pn of a collection and serves them
\* by cursor: the page after the one whose last element starting_after
\* names, nothing more after Pn, and P1 to a request that names no element
\* of the collection.
FixedDouble(reply) == [kind |-> "fixed", reply |-> reply]
PagedDouble(pages) == [kind |-> "paged", pages |-> pages]

ServePage(pages, cursor) ==
  LET at == IF IsNone(cursor) THEN {}
            ELSE {i \in 1..Len(pages) :
                    pages[i].o.data.xs # <<>> /\ LastIdOf(pages[i]) = cursor.v}
  IN IF at = {} THEN Http(200, pages[1])
     ELSE LET i == CHOOSE i \in at : TRUE IN
          IF i < Len(pages) THEN Http(200, pages[i + 1])
          ELSE Http(200, EmptyPage(pages[1].o.url.s))

Transport(client, req) ==
  IF client.kind = "fixed" THEN client.reply
  ELSE CHOOSE reply \in
         {ServePage(client.pages, cursor) :
            cursor \in {PairLookup(ParseQs(QueryOf(req.path)), "starting_after")}} :
         TRUE

\* what a call made, what the transport answered and what it returns
Outcome(sent, replies, result) ==
  [sent |-> sent, replies |-> replies, result |-> result]

\* one round trip: the request goes to the transport once, and its answer is
\* what the call returns, decoded into T
RoundTrip(client, request, T) ==
  CHOOSE out \in
    UNION {{Outcome(<<req>>, <<reply>>, Respond(reply, T)) :
              reply \in {Transport(client, req)}} : req \in {request}} :
    TRUE

\* Client::get, Client::post and Client::post_empty
Client_get(client, path, T) ==
  RoundTrip(client, Request("get", "GET", path, ""), T)

Client_post(client, path, params, T) ==
  RoundTrip(client, Request("post", "POST", path, QsString(params)), T)

Client_post_empty(client, path, T) ==
  RoundTrip(client, Request("post_empty", "POST", path, ""), T)

\* The encoder rejects a value holding a character its rules forbid; the
\* line feed stands for every such character.
Forbidden(pairs) == \E i \in 1..Len(pairs) : IndexOf(pairs[i].v, "\n") # 0

\* qs::to_string(&params): the encoded string, or the encoder's error
QsToString(pairs) ==
  IF Forbidden(pairs) THEN Err(EncodingError) ELSE Ok(QsString(pairs))

\* Serialize for Option<Metadata> handed over as the whole parameter value:
\* None writes nothing, Some(map) writes the map's entries at the top level
QsOptionMap(metadata) ==
  IF IsNone(metadata) THEN <<>> ELSE QsValue("", KMap, metadata.v)


(***************************************************************************)
(* The operation templates.  Each returns the outcome of one invocation    *)
(* against the transport double client.                                    *)
(***************************************************************************)
PaymentIntent_create(client, params) ==
  Client_post(client, "/payment_intents",
              QsStruct(PaymentIntentCreateParams, params),
              TResource(PaymentIntent))

\* retrieve that answers with an empty resource when the call fails
PaymentIntent_retrieve_lenient(client, payment_intent_id) ==
  LET out == Client_get(client, "/payment_intents/" \o payment_intent_id,
                        TResource(PaymentIntent))
  IN IF out.result.ok THEN out
     ELSE Outcome(out.sent, out.replies, Ok([id |-> payment_intent_id]))

PaymentIntent_retrieve(client, payment_intent_id) ==
  Client_get(client, "/payment_intents/" \o payment_intent_id,
             TResource(PaymentIntent))

PaymentIntent_update(client, payment_intent_id, params) ==
  Client_post(client, "/payment_intents/" \o payment_intent_id,
              QsStruct(PaymentIntentUpdateParams, params),
              TResource(PaymentIntent))

\* confirm that tries once more when the transport fails
PaymentIntent_confirm_retrying(client, payment_intent_id, params) ==
  LET once == Client_post(client,
                          "/payment_intents/" \o payment_intent_id \o "/confirm",
                          QsStruct(PaymentIntentConfirmParams, params),
                          TResource(PaymentIntent))
  IN IF once.result.ok \/ once.result.e.kind # "TransportError" THEN once
     ELSE Outcome(once.sent \o once.sent, once.replies \o once.replies,
                  once.result)

PaymentIntent_confirm(client, payment_intent_id, params) ==
  Client_post(client, "/payment_intents/" \o payment_intent_id \o "/confirm",
              QsStruct(PaymentIntentConfirmParams, params),
              TResource(PaymentIntent))

\* capture posted to the path of the sub-action above it
PaymentIntent_capture_as_confirm(client, payment_intent_id, params) ==
  Client_post(client, "/payment_intents/" \o payment_intent_id \o "/confirm",
              QsStruct(PaymentIntentCaptureParams, params),
              TResource(PaymentIntent))

PaymentIntent_capture(client, payment_intent_id, params) ==
  Client_post(client, "/payment_intents/" \o payment_intent_id \o "/capture",
              QsStruct(PaymentIntentCaptureParams, params),
              TResource(PaymentIntent))

PaymentIntent_cancel(client, payment_intent_id, params) ==
  Client_post(client, "/payment_intents/" \o payment_intent_id \o "/cancel",
              QsStruct(PaymentIntentCancelParams, params),
              TResource(PaymentIntent))

\* a list call that leaves its parameters out of the request
PaymentIntent_list_unfiltered(client, params) ==
  Client_get(client, "/payment_intents", TList(PaymentIntent))

PaymentIntent_list(client, params) ==
  LET q == QsToString(QsStruct(PaymentIntentListParams, params)) IN
  IF ~q.ok THEN Outcome(<<>>, <<>>, Err(EncodingError))
  ELSE Client_get(client, "/payment_intents?" \o q.v, TList(PaymentIntent))

Payout_create(client, params) ==
  Client_post(client, "/payouts", QsStruct(PayoutParams, params),
              TResource(Payout))

\* retrieve that builds its path in a buffer all callers share: when the
\* client is busy with another call, the identifier is lost from the path
Payout_retrieve_reusing(client, payout_id) ==
  IF "busy" \in DOMAIN client /\ client.busy
    THEN Client_get(client, "/payouts/", TResource(Payout))
    ELSE Client_get(client, "/payouts/" \o payout_id, TResource(Payout))

Payout_retrieve(client, payout_id) ==
  Client_get(client, "/payouts/" \o payout_id, TResource(Payout))

\* update that returns early when there is nothing to change
Payout_update_unsent(client, payout_id, metadata) ==
  IF IsNone(metadata) THEN Outcome(<<>>, <<>>, Err(EncodingError))
  ELSE Client_post(client, "/payouts/" \o payout_id, QsOptionMap(metadata),
                   TResource(Payout))

Payout_update(client, payout_id, metadata) ==
  Client_post(client, "/payouts/" \o payout_id, QsOptionMap(metadata),
              TResource(Payout))

\* a list call that goes to the transport first and looks at the encoder's
\* result afterwards
Payout_list_eager(client, params) ==
  LET pairs == QsStruct(PayoutListParams, params)
      out == Client_get(client, "/payouts?" \o QsString(pairs), TList(Payout))
  IN IF ~QsToString(pairs).ok
       THEN Outcome(out.sent, out.replies, Err(EncodingError))
       ELSE out

\* a list call that leaves its parameters out of the request
Payout_list_unfiltered(client, params) ==
  Client_get(client, "/payouts", TList(Payout))

Payout_list(client, params) ==
  LET q == QsToString(QsStruct(PayoutListParams, params)) IN
  IF ~q.ok THEN Outcome(<<>>, <<>>, Err(EncodingError))
  ELSE Client_get(client, "/payouts?" \o q.v, TList(Payout))

Payout_cancel(client, payout_id) ==
  Client_post_empty(client, "/payouts/" \o payout_id \o "/cancel",
                    TResource(Payout))

\* next_page that asks for the list again, with the parameters as they
\* are, when the page has no element to take a cursor from
List_next_page_uncursored(self, client, params, R) ==
  LET next == IF self.data = <<>> THEN params
              ELSE [params EXCEPT !.starting_after =
                      Some(self.data[Len(self.data)].id)]
  IN IF R = "PaymentIntent" THEN PaymentIntent_list(client, next)
     ELSE Payout_list(client, next)

\* List::next_page on a page for which has_more() is true: the same list
\* call with starting_after set to the identifier of the page's last
\* element; InvalidCursor, and no call, when the page has no element
List_next_page(self, client, params, R) ==
  IF self.data = <<>> THEN Outcome(<<>>, <<>>, Err(InvalidCursor))
  ELSE LET last == self.data[Len(self.data)]
           cursor == IF R = "PaymentIntent" THEN PaymentIntent_id(last)
                     ELSE Payout_id(last)
           next == [params EXCEPT !.starting_after = Some(cursor)]
       IN IF R = "PaymentIntent" THEN PaymentIntent_list(client, next)
          ELSE Payout_list(client, next)


(***************************************************************************)
(* The inputs: identifiers, parameter values and the answers of the        *)
(* transport double.                                                       *)
(***************************************************************************)
\* identifiers are not checked: a usual one, the empty one, and one holding
\* characters that mean something in a URL
Ids == {"pi_123", "", "a/b?c=d"}

Meta1 == << <<"order", "7">> >>
Meta2 == << <<"order", "7">>, <<"amount", "x">> >>

PaymentIntentCreateInputs ==
  LET base == [Default(PaymentIntentCreateParams) EXCEPT
                 !.allowed_source_types = <<"card">>, !.amount = 1000,
                 !.currency = "usd"]
  IN { base,
       [base EXCEPT !.metadata = Some(Meta2), !.confirm = Some(TRUE),
                    !.capture_method = Some("Manual")],
       [base EXCEPT !.allowed_source_types = <<"card", "sepa">>,
                    !.description = Some("d"), !.metadata = Some(<<>>)] }

PaymentIntentUpdateInputs ==
  LET base == Default(PaymentIntentUpdateParams) IN
  { base,
    [base EXCEPT !.amount = Some(500)],
    [base EXCEPT !.metadata = Some(Meta2)],
    [base EXCEPT !.description = Some("d"), !.receipt_email = Some("a@b.c"),
                 !.save_source_to_customer = Some(FALSE)] }

PaymentIntentConfirmInputs ==
  LET base == Default(PaymentIntentConfirmParams) IN
  { base,
    [base EXCEPT !.source = Some("src_1")],
    [base EXCEPT !.return_url = Some("r"),
                 !.save_source_to_customer = Some(TRUE)] }

PaymentIntentCaptureInputs ==
  LET base == Default(PaymentIntentCaptureParams) IN
  { base,
    [base EXCEPT !.amount_to_capture = Some(700)],
    [base EXCEPT !.amount_to_capture = Some(0),
                 !.application_fee_amount = Some(12)] }

PaymentIntentCancelInputs ==
  {[cancellation_reason |-> r] :
     r \in {None} \cup {Some(CancellationReason.variants[i]) :
                          i \in 1..Len(CancellationReason.variants)}}

PayoutCreateInputs ==
  LET base == [Default(PayoutParams) EXCEPT !.amount = 100, !.currency = "usd"]
  IN { base,
       [base EXCEPT !.metadata = Some(Meta1)],
       [base EXCEPT !.method = Some("Instant"),
                    !.source_type = Some("BankAccount"),
                    !.description = Some("d")] }

PayoutUpdateInputs == {None, Some(<<>>), Some(Meta1), Some(Meta2)}

\* RangeQuery values: every choice of which of the four bounds are set, with
\* bounds that contradict each other (gt above lt)
RangeInputs ==
  {RangeQuery(IF "gt" \in S THEN Some(1500) ELSE None,
              IF "gte" \in S THEN Some(7) ELSE None,
              IF "lt" \in S THEN Some(-3) ELSE None,
              IF "lte" \in S THEN Some(0) ELSE None) :
     S \in SUBSET {"gt", "gte", "lt", "lte"}}

\* list parameters used to walk every collection of the double
PaymentIntentListWalkInputs ==
  LET base == Default(PaymentIntentListParams) IN
  { base,
    [base EXCEPT !.starting_after = Some("cur0"), !.limit = Some(2),
                 !.created = Some(RangeQuery(Some(5), None, Some(2), None))] }

\* list parameters holding every range value
PaymentIntentListRangeInputs ==
  {[Default(PaymentIntentListParams) EXCEPT !.created = Some(rq),
                                            !.starting_after = sa] :
     rq \in RangeInputs, sa \in {None, Some("cur0")}}

PayoutListWalkInputs ==
  LET base == Default(PayoutListParams) IN
  { base,
    [base EXCEPT !.starting_after = Some("cur0"),
                 !.status = Some("InTransit"), !.destination = Some("ba_1"),
                 !.arrival_date = Some(RangeQuery(None, Some(4), None, None))] }

PayoutListRangeInputs ==
  {[Default(PayoutListParams) EXCEPT !.created = Some(rq), !.arrival_date = ad] :
     rq \in RangeInputs,
     ad \in {None, Some(RangeQuery(None, None, None, Some(9)))}}

\* list parameters the encoder rejects: a cursor holding a forbidden
\* character, alone and next to fields that do encode
UnencodableInputs(fields) ==
  LET base == Default(fields) IN
  { [base EXCEPT !.ending_before = Some("a\nb")],
    [base EXCEPT !.limit = Some(3), !.starting_after = Some("\n"),
                 !.created = Some(RangeQuery(Some(5), None, None, None))] }

\* resource bodies as the server sends them
PaymentIntentBody(id) ==
  [id |-> JStr(id), object |-> JStr("payment_intent"), amount |-> JNum(1000),
   cancellation_reason |-> JNull, capture_method |-> JStr("automatic"),
   confirmation_method |-> JNull, last_payment_error |-> JNull,
   status |-> JStr("requires_confirmation")]

PayoutBody(id) ==
  [id |-> JStr(id), object |-> JStr("payout"), amount |-> JNum(100),
   failure_code |-> JNull, method |-> JStr("standard"),
   source_type |-> JStr("card"), status |-> JStr("pending"),
   type |-> JStr("bank_account")]

\* values an enumerated field may hold on the wire: every name the
\* enumeration knows, and some it does not
UnknownWires == {"brand_new", "", "other", "PAID"}
Wires(e) == {WireName(e, v) : v \in NamedVariants(e)} \cup UnknownWires

\* a body with each enumerated field in turn set to each wire value
EnumBodies(schema, base) ==
  UNION {{[base EXCEPT ![schema[i].key] = JStr(w)] :
            w \in Wires(schema[i].kind.e)} :
           i \in {j \in 1..Len(schema) : schema[j].kind.k = "enum"}}

PaymentErrorBodies ==
  {[PaymentIntentBody("pi_123") EXCEPT
      !.last_payment_error = JObj([type |-> JStr(w), code |-> JStr("c")])] :
     w \in Wires(PaymentErrorType)}

\* bodies that are not the resource asked for
BadBodies ==
  { JObj([object |-> JStr("payment_intent")]),
    JObj([PaymentIntentBody("pi_123") EXCEPT !.status = JNum(3)]),
    JStr("<html>") }

FailReplies == {Failed("connection refused"), Failed("timed out")}

ErrorReplies ==
  { Http(402, JObj([error |-> JObj([type |-> JStr("card_error"),
                                    code |-> JStr("card_declined")])])),
    Http(429, JObj([error |-> JObj([type |-> JStr("rate_limit_error")])])),
    Http(500, JStr("<html>")) }

GoodReplies(R) ==
  IF R = "PaymentIntent"
    THEN { Http(200, JObj(PaymentIntentBody("pi_123"))),
           Http(200, JObj([PaymentIntentBody("pi_123") EXCEPT
                             !.status = JStr("canceled"),
                             !.cancellation_reason = JStr("duplicate")])) }
    ELSE { Http(200, JObj(PayoutBody("po_1"))),
           Http(200, JObj([PayoutBody("po_1") EXCEPT
                             !.status = JStr("failed"),
                             !.failure_code = JStr("no_account")])) }

\* the answers an operation is tried against
Replies(R) == GoodReplies(R) \cup {Http(200, b) : b \in BadBodies} \cup ErrorReplies \cup FailReplies

\* the answers retrieve is tried against: those, and every enumerated value
RetrieveReplies(R) ==
  Replies(R) \cup
  (IF R = "PaymentIntent"
     THEN {Http(200, JObj(b)) :
             b \in EnumBodies(PaymentIntent, PaymentIntentBody("pi_123"))
                     \cup PaymentErrorBodies}
     ELSE {Http(200, JObj(b)) : b \in EnumBodies(Payout, PayoutBody("po_1"))})

\* The collections of the double: pages P1..Pn of the given sizes, has_more
\* set on all but Pn, the elements numbered through.  A size of 0 before Pn
\* is the empty page that says it has more.
RECURSIVE SumTo(_, _)
SumTo(sizes, i) == IF i = 0 THEN 0 ELSE sizes[i] + SumTo(sizes, i - 1)

RECURSIVE Elements(_, _, _)
Elements(R, from, n) ==
  IF n = 0 THEN <<>>
  ELSE <<IF R = "PaymentIntent"
           THEN JObj(PaymentIntentBody("pi_" \o ToDecimal(from)))
           ELSE JObj(PayoutBody("po_" \o ToDecimal(from)))>>
       \o Elements(R, from + 1, n - 1)

RECURSIVE PagesFrom(_, _, _)
PagesFrom(R, sizes, i) ==
  IF i > Len(sizes) THEN <<>>
  ELSE <<JObj([object |-> JStr("list"),
               data |-> JArr(Elements(R, SumTo(sizes, i - 1) + 1, sizes[i])),
               has_more |-> JBool(i < Len(sizes)),
               url |-> JStr(IF R = "PaymentIntent" THEN "/v1/payment_intents"
                            ELSE "/v1/payouts")])>>
       \o PagesFrom(R, sizes, i + 1)

Pages(R, sizes) == PagesFrom(R, sizes, 1)


(***************************************************************************)
(* The state: one caller and what it holds.                                *)
(***************************************************************************)
VARIABLES
  call,      \* the invocation the caller made last: operation and arguments
  sent,      \* the requests that invocation made to the transport
  replies,   \* what the transport answered to each of them
  result,    \* what the invocation returned to the caller
  server,    \* the transport double of the caller's list walk
  first,     \* the requests of the list call the walk started with
  held,      \* the List page the caller holds
  fetched    \* the pages next_page has returned to the caller, in order

vars == <<call, sent, replies, result, server, first, held, fetched>>

NoCall == [op |-> "none", res |-> "", args |-> <<>>]
Call(op, R, args) == [op |-> op, res |-> R, args |-> args]
NoResult == Err([kind |-> "none"])

Idle == call.op = "none"

Init ==
  /\ call = NoCall
  /\ sent = <<>>
  /\ replies = <<>>
  /\ result = NoResult
  /\ server = [kind |-> "none"]
  /\ first = <<>>
  /\ held = None
  /\ fetched = <<>>

\* Each action is one invocation by the caller, who is idle before it: the
\* operation runs against a transport double, and the caller is left with
\* what it returned.

PaymentIntentCreate ==
  \E params \in PaymentIntentCreateInputs, reply \in Replies("PaymentIntent") :
    \E out \in {PaymentIntent_create(FixedDouble(reply), params)} :
      /\ Idle
      /\ call' = Call("create", "PaymentIntent", [params |-> params])
      /\ sent' = out.sent
      /\ replies' = out.replies
      /\ result' = out.result
      /\ UNCHANGED <<server, first, held, fetched>>

PaymentIntentRetrieve ==
  \E id \in Ids, reply \in RetrieveReplies("PaymentIntent") :
    \E out \in {PaymentIntent_retrieve(FixedDouble(reply), id)} :
      /\ Idle
      /\ call' = Call("retrieve", "PaymentIntent", [id |-> id])
      /\ sent' = out.sent
      /\ replies' = out.replies
      /\ result' = out.result
      /\ UNCHANGED <<server, first, held, fetched>>

PaymentIntentUpdate ==
  \E id \in Ids, params \in PaymentIntentUpdateInputs,
     reply \in Replies("PaymentIntent") :
    \E out \in {PaymentIntent_update(FixedDouble(reply), id, params)} :
      /\ Idle
      /\ call' = Call("update", "PaymentIntent", [id |-> id, params |-> params])
      /\ sent' = out.sent
      /\ replies' = out.replies
      /\ result' = out.result
      /\ UNCHANGED <<server, first, held, fetched>>

PaymentIntentConfirm ==
  \E id \in Ids, params \in PaymentIntentConfirmInputs,
     reply \in Replies("PaymentIntent") :
    \E out \in {PaymentIntent_confirm(FixedDouble(reply), id, params)} :
      /\ Idle
      /\ call' = Call("confirm", "PaymentIntent", [id |-> id, params |-> params])
      /\ sent' = out.sent
      /\ replies' = out.replies
      /\ result' = out.result
      /\ UNCHANGED <<server, first, held, fetched>>

PaymentIntentCapture ==
  \E id \in Ids, params \in PaymentIntentCaptureInputs,
     reply \in Replies("PaymentIntent") :
    \E out \in {PaymentIntent_capture(FixedDouble(reply), id, params)} :
      /\ Idle
      /\ call' = Call("capture", "PaymentIntent", [id |-> id, params |-> params])
      /\ sent' = out.sent
      /\ replies' = out.replies
      /\ result' = out.result
      /\ UNCHANGED <<server, first, held, fetched>>

PaymentIntentCancel ==
  \E id \in Ids, params \in PaymentIntentCancelInputs,
     reply \in Replies("PaymentIntent") :
    \E out \in {PaymentIntent_cancel(FixedDouble(reply), id, params)} :
      /\ Idle
      /\ call' = Call("cancel", "PaymentIntent", [id |-> id, params |-> params])
      /\ sent' = out.sent
      /\ replies' = out.replies
      /\ result' = out.result
      /\ UNCHANGED <<server, first, held, fetched>>

PayoutCreate ==
  \E params \in PayoutCreateInputs, reply \in Replies("Payout") :
    \E out \in {Payout_create(FixedDouble(reply), params)} :
      /\ Idle
      /\ call' = Call("create", "Payout", [params |-> params])
      /\ sent' = out.sent
      /\ replies' = out.replies
      /\ result' = out.result
      /\ UNCHANGED <<server, first, held, fetched>>

PayoutRetrieve ==
  \E id \in Ids, reply \in RetrieveReplies("Payout") :
    \E out \in {Payout_retrieve(FixedDouble(reply), id)} :
      /\ Idle
      /\ call' = Call("retrieve", "Payout", [id |-> id])
      /\ sent' = out.sent
      /\ replies' = out.replies
      /\ result' = out.result
      /\ UNCHANGED <<server, first, held, fetched>>

PayoutUpdate ==
  \E id \in Ids, metadata \in PayoutUpdateInputs,
     reply \in Replies("Payout") :
    \E out \in {Payout_update(FixedDouble(reply), id, metadata)} :
      /\ Idle
      /\ call' = Call("update", "Payout", [id |-> id, metadata |-> metadata])
      /\ sent' = out.sent
      /\ replies' = out.replies
      /\ result' = out.result
      /\ UNCHANGED <<server, first, held, fetched>>

PayoutCancel ==
  \E id \in Ids, reply \in Replies("Payout") :
    \E out \in {Payout_cancel(FixedDouble(reply), id)} :
      /\ Idle
      /\ call' = Call("cancel", "Payout", [id |-> id])
      /\ sent' = out.sent
      /\ replies' = out.replies
      /\ result' = out.result
      /\ UNCHANGED <<server, first, held, fetched>>

\* the doubles a list call is tried against: every collection with the walk
\* parameters, a collection of two pages with every range value, and the
\* answers that are no page
ListDoubles(R, walk) ==
  IF walk
    THEN {PagedDouble(Pages(R, sizes)) :
            sizes \in UNION {[1..n -> 0..MaxPageSize] : n \in 1..MaxPages}}
         \cup {FixedDouble(r) :
                 r \in {Http(200, b) : b \in BadBodies} \cup ErrorReplies
                         \cup FailReplies}
    ELSE {PagedDouble(Pages(R, <<1, 1>>))}

PaymentIntentList ==
  \E walk \in BOOLEAN :
    \E params \in (IF walk THEN PaymentIntentListWalkInputs
                   ELSE PaymentIntentListRangeInputs
                          \cup UnencodableInputs(PaymentIntentListParams)),
       client \in ListDoubles("PaymentIntent", walk) :
      \E out \in {PaymentIntent_list(client, params)} :
        /\ Idle
        /\ call' = Call("list", "PaymentIntent", [params |-> params])
        /\ sent' = out.sent
        /\ replies' = out.replies
        /\ result' = out.result
        /\ server' = client
        /\ first' = out.sent
        /\ held' = IF out.result.ok THEN Some(out.result.v) ELSE None
        /\ fetched' = <<>>

PayoutList ==
  \E walk \in BOOLEAN :
    \E params \in (IF walk THEN PayoutListWalkInputs
                   ELSE PayoutListRangeInputs
                          \cup UnencodableInputs(PayoutListParams)),
       client \in ListDoubles("Payout", walk) :
      \E out \in {Payout_list(client, params)} :
        /\ Idle
        /\ call' = Call("list", "Payout", [params |-> params])
        /\ sent' = out.sent
        /\ replies' = out.replies
        /\ result' = out.result
        /\ server' = client
        /\ first' = out.sent
        /\ held' = IF out.result.ok THEN Some(out.result.v) ELSE None
        /\ fetched' = <<>>

\* The caller's loop over a collection: while the page it holds says
\* has_more, it calls next_page on it with the parameters of its list call,
\* and holds the page that returns; it stops at the first failure.  The
\* transport may fail on any of these calls.
CanWalk ==
  /\ ~Idle
  /\ IsSome(held)
  /\ result.ok
  /\ List_has_more(held.v)
  /\ Len(fetched) < MaxFetch

NextPage ==
  /\ CanWalk
  /\ \E client \in {server} \cup {FixedDouble(r) : r \in FailReplies} :
       \E out \in {List_next_page(held.v, client, call.args.params, call.res)} :
         /\ call' = Call("next_page", call.res,
                         [params |-> call.args.params, self |-> held.v])
         /\ sent' = out.sent
         /\ replies' = out.replies
         /\ result' = out.result
         /\ held' = IF out.result.ok THEN Some(out.result.v) ELSE held
         /\ fetched' = IF out.result.ok THEN Append(fetched, out.result.v)
                       ELSE fetched
         /\ UNCHANGED <<server, first>>

\* the caller is done with what it holds
Release ==
  /\ ~Idle
  /\ call' = NoCall
  /\ sent' = <<>>
  /\ replies' = <<>>
  /\ result' = NoResult
  /\ server' = [kind |-> "none"]
  /\ first' = <<>>
  /\ held' = None
  /\ fetched' = <<>>

Next ==
  \/ PaymentIntentCreate
  \/ PaymentIntentRetrieve
  \/ PaymentIntentUpdate
  \/ PaymentIntentConfirm
  \/ PaymentIntentCapture
  \/ PaymentIntentCancel
  \/ PaymentIntentList
  \/ PayoutCreate
  \/ PayoutRetrieve
  \/ PayoutUpdate
  \/ PayoutList
  \/ PayoutCancel
  \/ NextPage
  \/ Release

Spec == Init /\ [][Next]_vars


(***************************************************************************)
(* Pagination.                                                             *)
(***************************************************************************)
SchemaOf(R) == IF R = "PaymentIntent" THEN PaymentIntent ELSE Payout

\* the caller is on a walk over a collection P1..Pn of the double: its list
\* call went out to the transport
OnWalk ==
  /\ call.op \in {"list", "next_page"}
  /\ server.kind = "paged"
  /\ first # <<>>

\* page Pi of the walked collection, as the caller would receive it
Served(i) == Deserialize(TList(SchemaOf(call.res)), server.pages[i]).v

\* every page that says has_more holds an element
NoEmptyPageBeforeLast ==
  \A i \in 1..(Len(server.pages) - 1) : server.pages[i].o.data.xs # <<>>

TransportFailed == ~result.ok /\ result.e.kind = "TransportError"

\* the walk has stopped, and not because the transport failed
WalkOver == OnWalk /\ ~TransportFailed /\ ~(result.ok /\ List_has_more(held.v))


\* what the caller has received is P2, P3, ... in that order, each once, and
\* the page it holds is the one it received last
ReceivedInOrder ==
  /\ Len(fetched) < Len(server.pages)
  /\ \A i \in 1..Len(fetched) : fetched[i] = Served(i + 1)
  /\ held = Some(Served(Len(fetched) + 1))

\* a walk that has stopped has received all of P2..Pn and holds Pn, which
\* says has_more = false
StoppedOnLast ==
  WalkOver => /\ Len(fetched) = Len(server.pages) - 1
              /\ ~List_has_more(held.v)

\* A call of next_page that returns a page adds that page to what the
\* caller has received.  No more than n-1 pages are ever received
\* (ReceivedInOrder), so the loop makes at most n-1 such calls and stops.
WalkAdvances ==
  (call'.op = "next_page" /\ result'.ok) => Len(fetched') = Len(fetched) + 1

\* C1, as stated: for every collection P1..Pn of the transport, with
\* has_more on all pages but Pn, a caller that starts from P1 and calls
\* next_page while has_more() is true receives exactly P2..Pn, each once and
\* in order, and then stops holding a page with has_more() = false.
C1_EveryWalkVisitsAllPages ==
  /\ [](OnWalk => (ReceivedInOrder /\ StoppedOnLast))
  /\ [][WalkAdvances]_vars

\* C1, amended: the same, for the collections in which every page that says
\* has_more holds at least one element (over a page that holds none the
\* walk stops with InvalidCursor, see C3).
C1_WalkVisitsAllPages ==
  /\ []((OnWalk /\ NoEmptyPageBeforeLast) => (ReceivedInOrder /\ StoppedOnLast))
  /\ [][WalkAdvances]_vars

\* a walk over three pages that has received the last two and stopped
C1_WalkOfThreePagesDone ==
  /\ WalkOver
  /\ call.op = "next_page"
  /\ NoEmptyPageBeforeLast
  /\ Len(server.pages) = MaxPages
  /\ Len(fetched) = MaxPages - 1
  /\ fetched[1] # fetched[2]

\* the query of the one request a call sent, as pairs
QueryPairs(reqs) == ParseQs(QueryOf(reqs[1].path))

\* how many pairs have the key k
CountKey(pairs, k) == Cardinality({i \in 1..Len(pairs) : pairs[i].k = k})

\* C2: for every non-empty page with has_more() true, the request of
\* next_page goes to the path of the original list call, carries the
\* caller's filter parameters unchanged, and has starting_after set to the
\* id of the last element of the page, in place of any starting_after the
\* caller passed.
C2_NextPageRequest ==
  (call.op = "next_page" /\ call.args.self.data # <<>>) =>
    LET page == call.args.self.data
        q == QueryPairs(sent)
    IN /\ Len(sent) = 1
       /\ Len(first) = 1
       /\ sent[1].verb = first[1].verb
       /\ PathOf(sent[1].path) = PathOf(first[1].path)
       /\ PairsWithout(q, "starting_after")
            = PairsWithout(QueryPairs(first), "starting_after")
       /\ CountKey(q, "starting_after") = 1
       /\ PairLookup(q, "starting_after") = Some(page[Len(page)].id)

\* next_page on a page of two elements, by a caller who had passed a
\* starting_after and filters of its own
C2_NextPageAfterTwoElements ==
  /\ call.op = "next_page"
  /\ Len(call.args.self.data) = 2
  /\ call.args.self.data[1].id # call.args.self.data[2].id
  /\ call.args.params.starting_after = Some("cur0")
  /\ IsSome(call.args.params.created)
  /\ result.ok


(***************************************************************************)
(* An empty page that says has_more.                                       *)
(***************************************************************************)
\* C3: when the page has no element while has_more() is true, next_page
\* returns InvalidCursor to the caller and sends no request, and the
\* caller's loop over the page has ended.
C3_EmptyPageIsInvalidCursor ==
  (call.op = "next_page" /\ call.args.self.data = <<>>
     /\ List_has_more(call.args.self)) =>
    /\ result = Err(InvalidCursor)
    /\ sent = <<>>
    /\ ~CanWalk

\* next_page was called on an empty page that says has_more
C3_NextPageOnEmptyPage ==
  /\ call.op = "next_page"
  /\ call.args.self.data = <<>>
  /\ List_has_more(call.args.self)
  /\ held = Some(call.args.self)


(***************************************************************************)
(* Verbs and paths.                                                        *)
(***************************************************************************)
CollectionPath(R) == IF R = "PaymentIntent" THEN "/payment_intents" ELSE "/payouts"

\* C4: create is POST to the collection path, retrieve is GET to
\* {collection_path}/{id}, update is POST to {collection_path}/{id}, and
\* confirm, capture and cancel are POST to {collection_path}/{id}/{action},
\* for every identifier string, which is inserted as it is.
C4_VerbAndPath ==
  (call.op \in {"create", "retrieve", "update", "confirm", "capture", "cancel"}) =>
    /\ Len(sent) = 1
    /\ sent[1].verb = (IF call.op = "retrieve" THEN "GET" ELSE "POST")
    /\ sent[1].path =
         (CASE call.op = "create" -> CollectionPath(call.res)
            [] call.op \in {"retrieve", "update"} ->
                 CollectionPath(call.res) \o "/" \o call.args.id
            [] OTHER ->
                 CollectionPath(call.res) \o "/" \o call.args.id
                   \o "/" \o call.op)

\* capture of an identifier that holds the characters of a path and a query
C4_CaptureOfOddIdentifier ==
  /\ call.op = "capture"
  /\ call.args.id = "a/b?c=d"
  /\ Len(sent) = 1
  /\ sent[1].path = "/payment_intents/a/b?c=d/capture"


(***************************************************************************)
(* Request bodies.                                                         *)
(***************************************************************************)
\* the parameter record of a PaymentIntent update or sub-action
ParamsOf(op) ==
  CASE op = "update" -> PaymentIntentUpdateParams
    [] op = "confirm" -> PaymentIntentConfirmParams
    [] op = "capture" -> PaymentIntentCaptureParams
    [] op = "cancel" -> PaymentIntentCancelParams

\* the pairs of a body that belong to the field name
PairsUnder(pairs, name) ==
  {i \in 1..Len(pairs) : ParseKey(pairs[i].k)[1] = name}

\* how many values a set field holds
ValueCount(kind, v) == IF kind.k \in {"map", "seq"} THEN Len(v) ELSE 1

RangeFields(R) ==
  IF R = "PaymentIntent" THEN {"created"} ELSE {"created", "arrival_date"}

Bounds == {"gt", "gte", "lt", "lte"}

\* C6: for every RangeQuery with k of its four bounds set, the query of
\* the list request holds exactly k fragments for that field, one
\* field[bound]=value per set bound and none for an absent bound, and each
\* fragment decodes to the bound and the value that were set.
C6_RangeFragments ==
  (call.op = "list" /\ result # Err(EncodingError)) =>
    /\ Len(sent) = 1
    /\ LET q == QueryPairs(sent) IN
       \A field \in RangeFields(call.res) :
         LET rq == call.args.params[field] IN
         IF IsNone(rq) THEN PairsUnder(q, field) = {}
         ELSE /\ Cardinality(PairsUnder(q, field))
                   = Cardinality({b \in Bounds : IsSome(rq.v[b])})
              /\ \A b \in Bounds :
                   LET key == field \o "[" \o b \o "]" IN
                   IF IsNone(rq.v[b]) THEN CountKey(q, key) = 0
                   ELSE /\ CountKey(q, key) = 1
                        /\ ParseKey(key) = <<field, b>>
                        /\ ParseDecimal(PairLookup(q, key).v) = rq.v[b]

\* a list call whose created range has all four bounds set, gt above lt
C6_AllFourBoundsSet ==
  /\ call.op = "list"
  /\ call.res = "Payout"
  /\ IsSome(call.args.params.created)
  /\ \A b \in Bounds : IsSome(call.args.params.created.v[b])
  /\ call.args.params.created.v.gt.v > call.args.params.created.v.lt.v
  /\ Len(sent) = 1


(***************************************************************************)
(* Metadata.                                                               *)
(***************************************************************************)
\* the metadata a create or update call was given
MetadataOf(c) ==
  IF c.res = "Payout" /\ c.op = "update" THEN c.args.metadata
  ELSE c.args.params.metadata

\* every entry of the metadata m is in the body as metadata[key]=value, and
\* not as key=value
Nested(body, m) ==
  \A i \in 1..Len(m) :
    /\ PairLookup(body, "metadata[" \o m[i][1] \o "]") = Some(m[i][2])
    /\ \A j \in 1..Len(body) : body[j] # Pair(m[i][1], m[i][2])

\* C7: in every request that carries a metadata map, each entry is encoded
\* under its field name as metadata[key]=value and never as a top-level
\* key=value pair; this holds for Payout::create, Payout::update and the
\* PaymentIntent create and update.
C7_MetadataIsNested ==
  (call.op \in {"create", "update"} /\ Len(sent) = 1
     /\ IsSome(MetadataOf(call))) =>
    Nested(ParseQs(sent[1].body), MetadataOf(call).v)


(***************************************************************************)
(* One request per call; errors.                                           *)
(***************************************************************************)
\* C8: one invocation of an operation or of next_page makes one transport
\* request and never a second one, whatever the transport answers; the
\* only calls that make none are those that fail before the transport is
\* reached.
C8_OneRequestPerCall ==
  ~Idle =>
    /\ Len(sent) <= 1
    /\ Len(replies) = Len(sent)
    /\ Len(sent) = 0 =>
         /\ ~result.ok
         /\ result.e.kind \in {"InvalidCursor", "EncodingError"}

\* confirm against a transport that refused the connection: one request
C8_ConfirmFailedOnce ==
  /\ call.op = "confirm"
  /\ replies = <<Failed("connection refused")>>
  /\ Len(sent) = 1
  /\ ~result.ok

IsSuccess(reply) ==
  reply.t = "http" /\ reply.status >= 200 /\ reply.status < 300

\* C9: when the transport call of an operation or pagination step fails,
\* or its response does not decode, the call returns a typed failure and
\* never a resource; a TransportError of the transport is returned as it
\* is.
C9_NoErrorSwallowed ==
  ~Idle =>
    /\ Len(replies) = 0 => ~result.ok
    /\ \A i \in 1..Len(replies) :
         LET reply == replies[i] IN
         /\ reply.t = "fail" => result = Err(TransportError(reply.e))
         /\ (reply.t = "http" /\ ~IsSuccess(reply)) =>
              /\ ~result.ok
              /\ result.e.kind \in {"ApiError", "DecodeError"}
         /\ (reply.t = "http" /\ reply.body \in BadBodies) =>
              result = Err(DecodeError)
         /\ result.ok => (IsSuccess(reply) /\ reply.body.t = "obj")

\* retrieve against a transport that timed out
C9_RetrieveTimedOut ==
  /\ call.op = "retrieve"
  /\ call.res = "PaymentIntent"
  /\ replies = <<Failed("timed out")>>
  /\ result = Err(TransportError("timed out"))


(***************************************************************************)
(* Enumerated fields.                                                      *)
(***************************************************************************)
\* the enumerated fields of each resource: the key in the body, the name in
\* the record, whether it is an Option, and the values the server is known
\* to send with the variant of each
KnownValues ==
  [PaymentIntent |->
     << [key |-> "status", name |-> "status", opt |-> FALSE,
         known |-> { <<"requires_source", "RequiresSource">>,
                     <<"requires_confirmation", "RequiresConfirmation">>,
                     <<"requires_source_action", "RequiresSourceAction">>,
                     <<"processing", "Processing">>,
                     <<"requires_capture", "RequiresCapture">>,
                     <<"canceled", "Canceled">>,
                     <<"succeeded", "Succeeded">> }],
        [key |-> "cancellation_reason", name |-> "cancellation_reason",
         opt |-> TRUE,
         known |-> { <<"duplicate", "Duplicate">>,
                     <<"fraudulent", "Fraudulent">>,
                     <<"requested_by_customer", "RequestedByCustomer">> }],
        [key |-> "capture_method", name |-> "capture_method", opt |-> FALSE,
         known |-> { <<"automatic", "Automatic">>, <<"manual", "Manual">> }] >>,
   Payout |->
     << [key |-> "status", name |-> "status", opt |-> FALSE,
         known |-> { <<"paid", "Paid">>, <<"pending", "Pending">>,
                     <<"in_transit", "InTransit">>, <<"canceled", "Canceled">>,
                     <<"failed", "Failed">> }],
        [key |-> "failure_code", name |-> "failure_code", opt |-> TRUE,
         known |-> { <<"account_closed", "AccountClosed">>,
                     <<"account_frozen", "AccountFrozen">>,
                     <<"bank_account_restricted", "BankAccountRestricted">>,
                     <<"bank_ownership_changed", "BankOwnershipChanged">>,
                     <<"could_not_process", "CouldNotProcess">>,
                     <<"debit_not_authorized", "DebitNotAuthorized">>,
                     <<"declined", "Declined">>,
                     <<"insufficient_funds", "InsufficientFunds">>,
                     <<"invalid_account_number", "InvalidAccountNumber">>,
                     <<"incorrect_account_holder_name",
                       "IncorrectAccountHolderName">>,
                     <<"invalid_currency", "InvalidCurrency">>,
                     <<"no_account", "NoAccount">>,
                     <<"unsupported_card", "UnsupportedCard">> }],
        [key |-> "method", name |-> "method", opt |-> FALSE,
         known |-> { <<"standard", "Standard">>, <<"instant", "Instant">> }],
        [key |-> "source_type", name |-> "source_type", opt |-> FALSE,
         known |-> { <<"card", "Card">>, <<"bank_account", "BankAccount">>,
                     <<"alipay_account", "AlipayAccount">> }],
        [key |-> "type", name |-> "payout_type", opt |-> FALSE,
         known |-> { <<"bank_account", "BankAccount">>, <<"card", "Card">> }] >>]

\* the variant the value w of an enumerated field is to decode to
VariantFor(f, w) ==
  IF \E kv \in f.known : kv[1] = w
    THEN (CHOOSE kv \in f.known : kv[1] = w)[2]
    ELSE "Other"

\* a body that holds a whole resource: every enumerated field is there, as
\* a string (or null, for an Option), with the identifier and the amount
WholeBody(R, j) ==
  /\ j.t = "obj"
  /\ {"id", "object", "amount"} \subseteq DOMAIN j.o
  /\ j.o.id.t = "str" /\ j.o.object.t = "str" /\ j.o.amount.t = "num"
  /\ \A i \in 1..Len(KnownValues[R]) :
       LET f == KnownValues[R][i] IN
       /\ f.key \in DOMAIN j.o
       /\ j.o[f.key].t = "str" \/ (f.opt /\ j.o[f.key].t = "null")

\* C10: for every enumerated field of a resource, a value of the server
\* outside the known ones decodes, and to the catch-all variant, and a
\* known value decodes to its own variant, never to the catch-all.
C10_EnumDecoding ==
  (call.op \in {"create", "retrieve", "update", "confirm", "capture", "cancel"}
     /\ Len(replies) = 1 /\ IsSuccess(replies[1])
     /\ WholeBody(call.res, replies[1].body)) =>
    /\ result.ok
    /\ \A i \in 1..Len(KnownValues[call.res]) :
         LET f == KnownValues[call.res][i]
             j == replies[1].body.o[f.key]
         IN IF j.t = "null" THEN result.v[f.name] = None
            ELSE result.v[f.name] =
                   (IF f.opt THEN Some(VariantFor(f, j.s))
                    ELSE VariantFor(f, j.s))

\* a Payout retrieved with a status the enumeration does not know
C10_UnknownStatusRetrieved ==
  /\ call.op = "retrieve"
  /\ call.res = "Payout"
  /\ Len(replies) = 1
  /\ IsSuccess(replies[1])
  /\ WholeBody("Payout", replies[1].body)
  /\ replies[1].body.o.status = JStr("brand_new")
  /\ result.ok
  /\ result.v.status = "Other"

\* the variant an enumerated field of a decoded resource holds
VariantOf(f, v) == IF f.opt THEN v[f.name].v ELSE v[f.name]

\* C11: the unrecognized variant of an enumerated field carries the raw
\* string the server sent: the value of the server can be recovered from
\* the decoded resource (writing the decoded variant out gives it back),
\* and an unknown value decodes to a result that no other unknown value
\* decodes to.
C11_OtherCarriesRawString ==
  (call.op \in {"create", "retrieve", "update", "confirm", "capture", "cancel"}
     /\ Len(replies) = 1 /\ IsSuccess(replies[1])
     /\ WholeBody(call.res, replies[1].body) /\ result.ok) =>
    LET schema == SchemaOf(call.res)
        body == replies[1].body.o
    IN /\ \A i \in 1..Len(schema) :
            LET f == schema[i] IN
            (f.kind.k = "enum" /\ body[f.key].t = "str") =>
              LET w == body[f.key].s
                  d == VariantOf(f, result.v)
              IN /\ WireName(f.kind.e, d) = w
                 /\ (w \in UnknownWires) =>
                      \A w2 \in UnknownWires \ {w} :
                        DeserializeEnum(f.kind.e, w2) # Some(d)
       /\ (call.res = "PaymentIntent" /\ body.last_payment_error.t = "obj") =>
            WireName(PaymentErrorType,
                     result.v.last_payment_error.v.payment_error_type)
              = body.last_payment_error.o.type.s

(***************************************************************************)
(* Encoding comes before the transport.                                    *)
(***************************************************************************)
\* the text fields of the list parameters
TextFields == {"destination", "ending_before", "starting_after"}

\* a text field of the parameters is set to a value with a line feed in it
HoldsForbidden(params) ==
  \E f \in TextFields \cap DOMAIN params :
    IsSome(params[f]) /\ Len(SplitAt[params[f].v, "\n"]) > 1

\* C13: when encoding the list parameters fails, list returns the encoding
\* error and no request has gone to the transport; when a request has gone
\* out it is one GET whose query holds every parameter that was set, so the
\* whole query string was built before it.
C13_EncodingBeforeTransport ==
  (call.op = "list") =>
    /\ HoldsForbidden(call.args.params) =>
         (result = Err(EncodingError) /\ sent = <<>> /\ replies = <<>>)
    /\ (~result.ok /\ result.e = EncodingError) =>
         (sent = <<>> /\ replies = <<>>)
    /\ sent # <<>> =>
         /\ ~HoldsForbidden(call.args.params)
         /\ Len(sent) = 1
         /\ sent[1].verb = "GET"
         /\ \A f \in DOMAIN call.args.params :
              IsSome(call.args.params[f]) =>
                (PairsUnder(QueryPairs(sent), f) # {}
                   \/ (f \in RangeFields(call.res)
                         /\ \A b \in Bounds : IsNone(call.args.params[f].v[b])))

\* a Payout list call whose ending_before cannot be encoded, tried against
\* a transport that would have served a page
C13_ListFailedToEncode ==
  /\ call.op = "list"
  /\ call.res = "Payout"
  /\ call.args.params.ending_before = Some("a\nb")
  /\ server.kind = "paged"
  /\ result = Err(EncodingError)
  /\ sent = <<>>

(***************************************************************************)
(* Concurrent callers.  Two callers share one client: every operation      *)
(* takes client: &Client, a shared reference, and owns its arguments.  A   *)
(* call is two steps, the request going out and its answer coming back,    *)
(* and the steps of the two callers interleave in every way; the transport *)
(* answers the requests in flight in any order.  Here call, sent, replies  *)
(* and result hold one value per caller, and server is the shared          *)
(* transport with the requests in flight.                                  *)
(***************************************************************************)
Callers == {"a", "b"}

\* an invocation of an operation template with the arguments of cl
Invoke(client, cl) ==
  LET a == cl.args IN
  IF cl.res = "PaymentIntent"
    THEN CASE cl.op = "create" -> PaymentIntent_create(client, a.params)
           [] cl.op = "retrieve" -> PaymentIntent_retrieve(client, a.id)
           [] cl.op = "update" -> PaymentIntent_update(client, a.id, a.params)
           [] cl.op = "confirm" -> PaymentIntent_confirm(client, a.id, a.params)
           [] cl.op = "capture" -> PaymentIntent_capture(client, a.id, a.params)
           [] cl.op = "cancel" -> PaymentIntent_cancel(client, a.id, a.params)
           [] cl.op = "list" -> PaymentIntent_list(client, a.params)
    ELSE CASE cl.op = "create" -> Payout_create(client, a.params)
           [] cl.op = "retrieve" -> Payout_retrieve(client, a.id)
           [] cl.op = "update" -> Payout_update(client, a.id, a.metadata)
           [] cl.op = "cancel" -> Payout_cancel(client, a.id)
           [] cl.op = "list" -> Payout_list(client, a.params)

\* the invocations the callers make
ConcCalls ==
  LET ids == {"pi_123", "a/b?c=d"} IN
  {Call("retrieve", R, [id |-> id]) : R \in {"PaymentIntent", "Payout"}, id \in ids}
  \cup {Call("cancel", "Payout", [id |-> id]) : id \in ids}
  \cup {Call("update", "Payout", [id |-> "pi_123", metadata |-> m]) :
          m \in {None, Some(Meta1)}}
  \cup {Call("create", "Payout", [params |-> p]) : p \in PayoutCreateInputs}
  \cup {Call("list", "Payout", [params |-> p]) :
          p \in PayoutListWalkInputs \cup UnencodableInputs(PayoutListParams)}
  \cup {Call("create", "PaymentIntent", [params |-> p]) :
          p \in PaymentIntentCreateInputs}
  \cup {Call("update", "PaymentIntent", [id |-> "pi_123", params |-> p]) :
          p \in PaymentIntentUpdateInputs}
  \cup {Call("confirm", "PaymentIntent", [id |-> id, params |-> p]) :
          id \in ids, p \in {Default(PaymentIntentConfirmParams)}}
  \cup {Call("capture", "PaymentIntent", [id |-> id, params |-> p]) :
          id \in ids, p \in {Default(PaymentIntentCaptureParams)}}
  \cup {Call("cancel", "PaymentIntent", [id |-> "pi_123", params |-> p]) :
          p \in PaymentIntentCancelInputs}
  \cup {Call("list", "PaymentIntent", [params |-> p]) :
          p \in PaymentIntentListWalkInputs}

ConcInit ==
  /\ call = [c \in Callers |-> NoCall]
  /\ sent = [c \in Callers |-> <<>>]
  /\ replies = [c \in Callers |-> <<>>]
  /\ result = [c \in Callers |-> NoResult]
  /\ server = [kind |-> "shared", inflight |-> <<>>]
  /\ first = <<>>
  /\ held = None
  /\ fetched = <<>>

\* caller c makes a call: its request goes out to the transport, or the
\* call returns without one.  The client the call finds is the shared one,
\* busy when a request of the other caller is in flight; the transport has
\* not answered yet.
Issue(c) ==
  \E cl \in ConcCalls, busy \in BOOLEAN :
    \E out \in {Invoke(FixedDouble(Failed("no answer yet")) @@ [busy |-> busy],
                       cl)} :
      /\ call[c] = NoCall
      /\ busy = (server.inflight # <<>>)
      /\ call' = [call EXCEPT ![c] = cl]
      /\ sent' = [sent EXCEPT ![c] = out.sent]
      /\ result' = [result EXCEPT ![c] = IF out.sent = <<>> THEN out.result
                                         ELSE NoResult]
      /\ server' = [server EXCEPT !.inflight =
                      IF out.sent = <<>> THEN @
                      ELSE Append(@, [from |-> c, req |-> out.sent[1]])]
      /\ UNCHANGED <<replies, first, held, fetched>>

\* the transport answers the request of caller c (a resource or a page, an
\* error envelope or a failure), and the call returns
Answer(c) ==
  \E cl \in ConcCalls, busy \in BOOLEAN :
    \E reply \in
        {Failed("timed out"),
         Http(429, JObj([error |-> JObj([type |-> JStr("rate_limit_error")])]))}
        \cup (IF cl.op = "list" THEN {Http(200, Pages(cl.res, <<1>>)[1])}
              ELSE GoodReplies(cl.res)) :
      \E out \in {Invoke(FixedDouble(reply) @@ [busy |-> busy], cl)} :
        /\ call[c] = cl
        /\ busy = (Len(server.inflight) > 1)
        /\ \E i \in 1..Len(server.inflight) : server.inflight[i].from = c
        /\ replies' = [replies EXCEPT ![c] = out.replies]
        /\ result' = [result EXCEPT ![c] = out.result]
        /\ server' = [server EXCEPT !.inflight =
                        SelectSeq(@, LAMBDA e : e.from # c)]
        /\ UNCHANGED <<call, sent, first, held, fetched>>

\* caller c is done with what its call returned
Return(c) ==
  /\ result[c] # NoResult
  /\ call' = [call EXCEPT ![c] = NoCall]
  /\ sent' = [sent EXCEPT ![c] = <<>>]
  /\ replies' = [replies EXCEPT ![c] = <<>>]
  /\ result' = [result EXCEPT ![c] = NoResult]
  /\ UNCHANGED <<server, first, held, fetched>>

ConcNext == \E c \in Callers : Issue(c) \/ Answer(c) \/ Return(c)

ConcSpec == ConcInit /\ [][ConcNext]_vars

\* the verb and the path of the request of the invocation cl
VerbOf(cl) == IF cl.op \in {"retrieve", "list"} THEN "GET" ELSE "POST"

PathPrefix(cl) ==
  CASE cl.op = "create" -> CollectionPath(cl.res)
    [] cl.op = "list" -> CollectionPath(cl.res) \o "?"
    [] cl.op \in {"retrieve", "update"} ->
         CollectionPath(cl.res) \o "/" \o cl.args.id
    [] OTHER -> CollectionPath(cl.res) \o "/" \o cl.args.id \o "/" \o cl.op

\* what caller c sent is the request of its own call: the verb and the path
\* of its operation and arguments, and what any caller sends for that call
OwnRequest(c) ==
  /\ Len(sent[c]) <= 1
  /\ sent[c] = <<>> => (call[c] = NoCall \/ result[c] = Err(EncodingError))
  /\ sent[c] # <<>> =>
       /\ sent[c][1].verb = VerbOf(call[c])
       /\ IF call[c].op = "list"
            THEN PathOf(sent[c][1].path) = CollectionPath(call[c].res)
            ELSE sent[c][1].path = PathPrefix(call[c])
  /\ \A d \in Callers : call[d] = call[c] => sent[d] = sent[c]

\* what the call of caller c returned is read off the answer to its own
\* request: a resource with the identifier of that answer, or a failure
\* when that answer is none, and what any caller is returned for that call
\* and that answer
OwnResult(c) ==
  /\ replies[c] = <<>> =>
       (result[c] = NoResult \/ sent[c] = <<>>)
  /\ replies[c] # <<>> =>
       /\ Len(replies[c]) = 1 /\ Len(sent[c]) = 1
       /\ result[c].ok => IsSuccess(replies[c][1])
       /\ (result[c].ok /\ call[c].op # "list") =>
            result[c].v.id = replies[c][1].body.o.id.s
       /\ (~result[c].ok /\ replies[c][1].t = "fail") =>
            result[c].e = TransportError(replies[c][1].e)
  /\ \A d \in Callers :
       (call[d] = call[c] /\ replies[d] = replies[c] /\ replies[c] # <<>>) =>
         result[d] = result[c]

\* the requests in flight are the callers' own, one per waiting caller
InFlightAreOwn ==
  /\ \A i \in 1..Len(server.inflight) :
       LET e == server.inflight[i] IN
       sent[e.from] = <<e.req>> /\ replies[e.from] = <<>>
  /\ \A c \in Callers :
       (sent[c] # <<>> /\ replies[c] = <<>>) =>
         Cardinality({i \in 1..Len(server.inflight) :
                        server.inflight[i].from = c}) = 1

\* a step is a step of one caller: what the other caller holds stays
OneCallerMoves ==
  \E c \in Callers : \A d \in Callers \ {c} :
    /\ call'[d] = call[d]
    /\ sent'[d] = sent[d]
    /\ replies'[d] = replies[d]
    /\ result'[d] = result[d]

\* C12: concurrent callers do not interfere.  In every interleaving of two
\* callers over one transport, the request of each caller (verb, path,
\* body) is that of its own call, whatever the other caller does and
\* whatever is in flight, and what its call returns is read off the answer
\* to its own request; a step of one caller changes nothing the other
\* holds.
C12_CallersDoNotInterfere ==
  /\ [](\A c \in Callers : OwnRequest(c) /\ OwnResult(c))
  /\ []InFlightAreOwn
  /\ [][OneCallerMoves]_vars

\* the two callers made different calls, and caller a holds the resource
\* of its call while the request of caller b is still in flight
C12_AnsweredOutOfOrder ==
  /\ call["a"].op = "retrieve" /\ call["a"].res = "Payout"
  /\ call["b"].op = "update" /\ call["b"].res = "PaymentIntent"
  /\ result["a"].ok
  /\ Len(server.inflight) = 1
  /\ server.inflight[1].from = "b"
  /\ sent["a"] # sent["b"]

====
